---- MODULE Spec2Model ----
(***************************************************************************)
(* Rusty-Webex: the command parser (src/src/parser.rs), the realtime       *)
(* transport WebSocketClient (src/src/websocket.rs) and the realtime       *)
(* client's run loop (src/src/lib.rs), as state machines.                  *)
(*                                                                         *)
(* Strings are sequences of one-character strings, so that tokenising a    *)
(* message is computed and not assumed.                                    *)
(***************************************************************************)
EXTENDS Integers, Sequences, FiniteSets, TLC

VARIABLES
    \* ---- parser.rs ------------------------------------------------------
    commands,        \* Parser.commands: keyword -> [callback, args]
    plain_string_message, \* the argument of the parse under examination
    parse_result     \* what Parser::parse gave for it

VARIABLES
    \* ---- websocket.rs: WebSocketClient and its environment ---------------
    is_secure,         \* WebSocketClient._is_secure
    is_established,    \* WebSocketClient._is_established
    websocket_stream,  \* WebSocketClient._websocket_stream: None or a connection
    verified_ws,       \* the stream a running send/listen/close took out of it
    callback,          \* a running listen_for_messages' callback is Some
    app_state,         \* APP_STATE: "unset", or "running" once AppState.running is set
    pc,                \* where the task that owns the client stands
    ret,               \* the last operation that returned, and its value
    conns,             \* every connection opened so far
    wire,              \* frames the client wrote, in order, with their connection
    inbox,             \* stream items the peer produced and nobody read yet
    peer_ended,        \* the stream of the current connection is exhausted
    delivered,         \* how many items the peer produced (bounded)
    seen,              \* stream items the receive loop consumed, in order
    on_text            \* payloads the callback was invoked with, in order

VARIABLES
    \* ---- lib.rs: WebexWebSocketClient::run and the device registry -------
    run_pc,            \* where run stands ("off" when no run is under way)
    run_ret,           \* what run returned
    device_info,       \* WebexWebSocketClient.device_info: <<>> or <<device>>
    devices,           \* the cloud's device list for the bearer credential
    ws_stream,         \* run's local stream: None or a connection
    resolved,          \* the get_device_info_or_create calls that returned, in order
    resolving          \* the get_device_info_or_create call under way: <<>> or <<call>>

VARIABLES
    \* ---- lib.rs: WebSocketClient::start_ws_client and receive_messages ----
    forwards           \* what each successful start_ws_client call left: its
                       \* connection, its two tasks and its channel

VARIABLES
    \* ---- lib.rs: the webhook handlers and WebexBotState.parser's mutex -----
    parser_lock,       \* the task that holds the Mutex<Parser>, or NoTask
    handlers,          \* each webhook_listener invocation: where it stands
    registrars         \* each WebexBotServer::add_command call: where it stands

VARIABLES
    \* ---- websocket.rs: calls of the constructors ---------------------------
    constructions      \* each call of a transport client's new: where it stands

dispatchVars == <<parser_lock, handlers, registrars>>

parserVars == <<commands, plain_string_message, parse_result,
                parser_lock, handlers, registrars>>

runVars == <<run_pc, run_ret, device_info, devices, ws_stream, resolved,
            resolving>>

clientVars == <<is_secure, is_established, websocket_stream, verified_ws,
                callback, app_state, pc, ret, conns, wire, seen, on_text>>

peerVars == <<inbox, peer_ended, delivered>>

constructVars == <<constructions>>

forwardVars == <<forwards>>

vars == <<commands, plain_string_message, parse_result,
          is_secure, is_established, websocket_stream, verified_ws,
          callback, app_state, pc, ret, conns, wire, seen, on_text,
          inbox, peer_ended, delivered,
          run_pc, run_ret, device_info, devices, ws_stream, resolved,
          resolving,
          parser_lock, handlers, registrars, constructions,
          forwards>>

(***************************************************************************)
(* Bounds and input alphabets.                                             *)
(***************************************************************************)
MaxTokens == 4       \* a message has at most this many ' '-separated parts
MaxArgs == 2         \* a registration has at most this many descriptors
MaxConns == 2        \* connections opened in one run of the model
MaxFrames == 2       \* stream items the peer produces in one run of the model
MaxDevices == 2      \* devices the cloud lists before the client starts
MaxResolves == 2     \* direct calls of get_device_info_or_create
MaxHandlers == 2     \* webhook events delivered in one run of the model
MaxRegistrars == 2   \* add_command calls made in one run of the model
MaxBuilders == 2     \* constructor calls made concurrently
MaxWaiting == 1      \* sends of the caller suspended on one channel at a time
MaxBacklogs == 1     \* channels that hold messages of the caller at one time

Space == " "

\* The space-free words messages are made of: the empty word (what two
\* adjacent spaces, or a leading or trailing space, produce), a mention
\* ("@b"ot) and a word that is a keyword where it comes second and a value
\* elsewhere.
Words == { <<>>, <<"@", "b">>, <<"r">> }

\* Keywords the hosting application registers ("r"oll and "p"oll).
Keywords == { <<"r">>, <<"p">> }

\* Descriptor names, by position in the registration.
ArgNames == <<"topic", "duration", "sides">>

Callbacks == { "cb1", "cb2" }

(***************************************************************************)
(* Strings.                                                                *)
(***************************************************************************)
RECURSIVE Join(_)
\* The message whose parts are ws: the words separated by single spaces.
Join(ws) ==
    IF Len(ws) = 0 THEN <<>>
    ELSE IF Len(ws) = 1 THEN ws[1]
    ELSE ws[1] \o <<Space>> \o Join(Tail(ws))

RECURSIVE SplitFrom(_, _, _)
\* str::split(' '): cut at every single space; empty pieces are kept, and
\* the result always has at least one piece.
SplitFrom(s, i, cur) ==
    IF i > Len(s) THEN <<cur>>
    ELSE IF s[i] = Space THEN <<cur>> \o SplitFrom(s, i + 1, <<>>)
    ELSE SplitFrom(s, i + 1, Append(cur, s[i]))

Split(s) == SplitFrom(s, 1, <<>>)

WordLists == UNION { [1..n -> Words] : n \in 1..MaxTokens }

Messages == { Join(ws) : ws \in WordLists }

\* Argument descriptor lists: RequiredArgument / OptionalArgument boxes.
ArgLists ==
    UNION { { [i \in 1..n |-> [name |-> ArgNames[i], required |-> f[i]]] :
                f \in [1..n -> BOOLEAN] } : n \in 0..MaxArgs }

(***************************************************************************)
(* Parser::parse.                                                          *)
(***************************************************************************)
Panic(why) == [kind |-> "Panic", why |-> why]

\* Command::invalid(..) wrapped in Err, with the texts of Command's constants.
INVALID_CMD == "You have entered an invalid Command!"
NO_CMD == "Command was not specified!"
MISSING_ARGS == "Missing required variables."

ParseErr(text) == [kind |-> "Err", error |-> text]

\* No parse has been made yet.
NotParsed == [kind |-> "NotParsed"]

RECURSIVE BindLoopAfterKeyword(_, _, _, _, _, _)
\* BindLoop, were the value of descriptor index read two parts further on,
\* after the mention and the keyword.
BindLoopAfterKeyword(args, parts, index, stop, required_arguments, optional_arguments) ==
    IF index >= stop
    THEN [required_arguments |-> required_arguments,
          optional_arguments |-> optional_arguments]
    ELSE LET pair == <<args[index + 1].name, parts[index + 3]>>
         IN  IF args[index + 1].required
             THEN BindLoopAfterKeyword(args, parts, index + 1, stop,
                           Append(required_arguments, pair), optional_arguments)
             ELSE BindLoopAfterKeyword(args, parts, index + 1, stop,
                           required_arguments, Append(optional_arguments, pair))

RECURSIVE BindLoop(_, _, _, _, _, _)
\* for index in 0..num_parts - 2 { ... push((name, parts[index])) ... }
\* index is the Rust (0-based) index; sequences here are 1-based.
BindLoop(args, parts, index, stop, required_arguments, optional_arguments) ==
    IF index >= stop
    THEN [required_arguments |-> required_arguments,
          optional_arguments |-> optional_arguments]
    ELSE LET pair == <<args[index + 1].name, parts[index + 1]>>
         IN  IF args[index + 1].required
             THEN BindLoop(args, parts, index + 1, stop,
                           Append(required_arguments, pair), optional_arguments)
             ELSE BindLoop(args, parts, index + 1, stop,
                           required_arguments, Append(optional_arguments, pair))

\* The three `Err::<Command, Error>(..);` statements of parse build an error
\* value and drop it: none of them returns.  What follows them runs.
Parse(cmds, msg) ==
    LET parts == Split(msg)
        num_parts == Len(parts)
    IN  IF num_parts <= 1
        THEN Panic("index out of bounds: parts[1]")
        ELSE IF parts[2] \notin DOMAIN cmds
        THEN Panic("unwrap on None: commands.get(parts[1])")
        ELSE LET command_structure == cmds[parts[2]]
                 arguments_len == Len(command_structure.args)
                 bound == IF arguments_len >= num_parts - 2
                          THEN BindLoop(command_structure.args, parts, 0,
                                        num_parts - 2, <<>>, <<>>)
                          ELSE [required_arguments |-> <<>>,
                                optional_arguments |-> <<>>]
             IN  [kind |-> "Ok",
                  command |-> parts[2],
                  required_arguments |-> bound.required_arguments,
                  optional_arguments |-> bound.optional_arguments,
                  callback |-> command_structure.callback]

(***************************************************************************)
(* The websocket stream, as the client sees it.                            *)
(***************************************************************************)
\* Option::None of a stream; connections are numbered from 1.
None == 0

Texts == { "x", "y" }

\* What `stream.next().await` can yield: Some(Ok(Message::..)), Some(Err(_)).
Frame(kind, payload) == [kind |-> kind, payload |-> payload]

StreamItems ==
    { Frame("Text", t) : t \in Texts }
        \cup { Frame(k, "") : k \in {"Binary", "Ping", "Pong", "Close", "Frame", "Err"} }

\* ... and None, once the stream is exhausted.
EndOfStream == Frame("None", "")

\* The read completes when an item is buffered or the stream has ended;
\* otherwise the task stays suspended in it.
StreamReady == inbox # <<>> \/ peer_ended

StreamNext == IF inbox # <<>> THEN Head(inbox) ELSE EndOfStream

Consumed == IF inbox # <<>> THEN Tail(inbox) ELSE inbox

\* Registration URLs handed to connect: a secure one, a plain one, and a
\* string Url::parse rejects.
Urls == { "wss://h", "ws://h", "not a url" }

UrlParses(u) == u # "not a url"

\* The handshake the scheme of a URL calls for.
SchemeIsSecure(u) == u = "wss://h"

\* MaybeTlsStream, were the stream's kind to follow the routine that asked
\* for it: TLS whenever a connector is passed, plain otherwise.
MaybeTlsStreamOfRoutine(web_socket_url, tls_connector) == tls_connector

\* The stream connect_async and connect_async_tls_with_config hand back, a
\* WebSocketStream<MaybeTlsStream<TcpStream>>: TRUE for a TLS session, FALSE
\* for a plain one.  Both calls are given the URL and the library picks
\* the kind from its scheme; the connector argument, Some(Rustls(..)) or
\* absent, only configures the TLS session of a wss:// URL.
MaybeTlsStream(web_socket_url, tls_connector) == SchemeIsSecure(web_socket_url)

\* A connection that is no more; what it was opened with is forgotten.
Closed == [secure |-> FALSE, connector |-> FALSE, url |-> "", open |-> FALSE]

\* Drop, were a replaced stream to stay open.
DropLeavesOpen(cs, c) == cs

\* Dropping a stream closes its connection.
Drop(cs, c) ==
    IF c = None THEN cs
    ELSE [i \in 1..Len(cs) |-> IF i = c THEN Closed ELSE cs[i]]

Returned(op, val) == [op |-> op, val |-> val]

\* What the peer had queued on a dropped stream is lost with it.
Discarded == inbox' = <<>> /\ peer_ended' = FALSE

(***************************************************************************)
(* WebSocketClient (websocket.rs).                                         *)
(***************************************************************************)
\* The calls of WebSocketClient::new and TransportWebSocketClient::new that
\* run concurrently, and one that has not been made yet.
Builders == 1..MaxBuilders

NotCalled == [pc |-> "idle", kind |-> "none", secure |-> FALSE, stage |-> "none"]

\* No constructor call is under way.
NoConstruction == constructions = [b \in Builders |-> NotCalled]

\* WebSocketClient::new; APP_STATE is set to running when still unset.
ClientStart(secure, established) ==
    /\ is_secure = secure
    /\ is_established = established
    /\ websocket_stream = None
    /\ verified_ws = None
    /\ callback = FALSE
    /\ app_state = "running"
    /\ pc = "idle"
    /\ ret = Returned("new", "Ok")
    /\ conns = <<>>
    /\ wire = <<>>
    /\ seen = <<>>
    /\ on_text = <<>>
    /\ NoConstruction

PeerStart ==
    /\ inbox = <<>>
    /\ peer_ended = FALSE
    /\ delivered = 0

\* Client::connect.  Url::parse(..).unwrap() and the expect("Failed to
\* connect") of connect / connect_secure panic before the assignment to
\* _websocket_stream: connect leaves the client, which it borrows, as it
\* was.  What becomes of the client is its owner's doing: the unwinding
\* task owns it and drops it with the stream it held, or the panic is
\* caught above a caller that keeps it.  Nothing sets _is_established.
Connect(registration_url, handshake_ok) ==
    /\ pc = "idle"
    /\ Len(conns) < MaxConns
    /\ IF UrlParses(registration_url) /\ handshake_ok
       THEN /\ conns' = Append(Drop(conns, websocket_stream),
                               [secure |-> MaybeTlsStream(registration_url, is_secure),
                                connector |-> is_secure,
                                url |-> registration_url, open |-> TRUE])
            /\ websocket_stream' = Len(conns) + 1
            /\ ret' = Returned("connect", "Ok")
            /\ inbox' = <<>>
            /\ peer_ended' = FALSE
            /\ UNCHANGED pc
       ELSE \/ /\ pc' = "panicked"
               /\ conns' = Drop(conns, websocket_stream)
               /\ websocket_stream' = None
               /\ Discarded
               /\ UNCHANGED ret
            \/ UNCHANGED <<pc, conns, websocket_stream, inbox, peer_ended, ret>>
    /\ UNCHANGED <<is_secure, is_established, verified_ws, callback, app_state,
                   wire, seen, on_text, delivered>>
    /\ UNCHANGED <<parserVars, runVars, constructVars, forwardVars>>

\* Send without the test of _is_established: any held stream is taken and
\* written to.
SendUnguarded(text, wrote) ==
    /\ pc = "idle"
    /\ IF websocket_stream # None
       THEN /\ verified_ws' = websocket_stream
            /\ websocket_stream' = None
            /\ wire' = IF wrote
                       THEN Append(wire, [conn |-> websocket_stream,
                                          kind |-> "Text", payload |-> text])
                       ELSE wire
            /\ pc' = "send_write"
            /\ UNCHANGED ret
       ELSE /\ ret' = Returned("send", "NotDefined")
            /\ UNCHANGED <<wire, websocket_stream, verified_ws, pc>>
    /\ UNCHANGED <<is_secure, is_established, callback, app_state, conns,
                   seen, on_text>>
    /\ UNCHANGED <<peerVars, parserVars, runVars, constructVars, forwardVars>>

\* Client::send, up to the await of its write.  The stream is taken out of
\* the client and the frame is handed to the sink; the task is then
\* suspended in `verified_ws.send(..).await` with the connection open.
Send(text, wrote) ==
    /\ pc = "idle"
    /\ IF is_established
       THEN IF websocket_stream # None
            THEN /\ verified_ws' = websocket_stream
                 /\ websocket_stream' = None
                 /\ wire' = IF wrote
                            THEN Append(wire, [conn |-> websocket_stream,
                                               kind |-> "Text", payload |-> text])
                            ELSE wire
                 /\ pc' = "send_write"
                 /\ UNCHANGED ret
            ELSE /\ ret' = Returned("send", "NotDefined")
                 /\ UNCHANGED <<wire, websocket_stream, verified_ws, pc>>
       ELSE /\ ret' = Returned("send", "NotDefined")
            /\ UNCHANGED <<wire, websocket_stream, verified_ws, pc>>
    /\ UNCHANGED <<is_secure, is_established, callback, app_state, conns,
                   seen, on_text>>
    /\ UNCHANGED <<peerVars, parserVars, runVars, constructVars, forwardVars>>

\* The write completes: its result is discarded (`let _ =`), send returns
\* Ok(()) and the taken stream is dropped.
SendReturn ==
    /\ pc = "send_write"
    /\ ret' = Returned("send", "Ok")
    /\ pc' = "idle"
    /\ conns' = Drop(conns, verified_ws)
    /\ verified_ws' = None
    /\ Discarded
    /\ UNCHANGED <<is_secure, is_established, websocket_stream, callback,
                   app_state, wire, seen, on_text, delivered>>
    /\ UNCHANGED <<parserVars, runVars, constructVars, forwardVars>>

\* send's future is dropped while it is suspended in the write: the taken
\* stream is dropped with it and nothing is returned.
SendDropped ==
    /\ pc = "send_write"
    /\ pc' = "idle"
    /\ conns' = Drop(conns, verified_ws)
    /\ verified_ws' = None
    /\ Discarded
    /\ UNCHANGED <<is_secure, is_established, websocket_stream, callback,
                   app_state, ret, wire, seen, on_text, delivered>>
    /\ UNCHANGED <<parserVars, runVars, constructVars, forwardVars>>

\* Client::listen_for_messages, up to the loop.  It takes the client by
\* value: returning Err drops the client, and its stream with it.
ListenForMessages(cb) ==
    /\ pc = "idle"
    /\ IF is_established /\ websocket_stream # None
       THEN /\ verified_ws' = websocket_stream
            /\ websocket_stream' = None
            /\ callback' = cb
            /\ pc' = "listen_check"
            /\ UNCHANGED <<ret, conns, inbox, peer_ended>>
       ELSE /\ ret' = Returned("listen_for_messages", "NotDefined")
            /\ pc' = "dropped"
            /\ conns' = Drop(conns, websocket_stream)
            /\ websocket_stream' = None
            /\ Discarded
            /\ UNCHANGED <<verified_ws, callback>>
    /\ UNCHANGED <<is_secure, is_established, app_state, wire, seen, on_text,
                   delivered>>
    /\ UNCHANGED <<parserVars, runVars, constructVars, forwardVars>>

\* The head of the loop: `if !access_app_state().running { return Ok(self) }`.
ListenCheck ==
    /\ pc = "listen_check"
    /\ IF app_state # "running"
       THEN /\ ret' = Returned("listen_for_messages", "Ok")
            /\ pc' = "idle"
            /\ conns' = Drop(conns, verified_ws)
            /\ verified_ws' = None
            /\ callback' = FALSE
            /\ Discarded
       ELSE /\ pc' = "listen_read"
            /\ UNCHANGED <<ret, conns, verified_ws, callback, inbox, peer_ended>>
    /\ UNCHANGED <<is_secure, is_established, websocket_stream,
                   app_state, wire, seen, on_text, delivered>>
    /\ UNCHANGED <<parserVars, runVars, constructVars, forwardVars>>

\* The arms of the loop's match on what the read yielded.
ListenArm(item) ==
    CASE item.kind = "Text" -> "callback"
      [] item.kind = "Err"  -> "return AwayError"
      [] OTHER              -> "continue"

\* `ws_msg = verified_ws.next()` in select!, and the match on it.
ListenRead ==
    /\ pc = "listen_read"
    /\ StreamReady
    /\ LET item == StreamNext
           arm == ListenArm(item)
       IN  /\ seen' = IF item = EndOfStream THEN seen ELSE Append(seen, item)
           /\ on_text' = IF arm = "callback" /\ callback
                         THEN Append(on_text, item.payload)
                         ELSE on_text
           /\ IF arm = "return AwayError"
              THEN /\ ret' = Returned("listen_for_messages", "AwayError")
                   /\ pc' = "dropped"
                   /\ conns' = Drop(conns, verified_ws)
                   /\ verified_ws' = None
                   /\ callback' = FALSE
                   /\ Discarded
              ELSE /\ pc' = "listen_check"
                   /\ inbox' = Consumed
                   /\ UNCHANGED <<ret, conns, verified_ws, callback, peer_ended>>
    /\ UNCHANGED <<is_secure, is_established, websocket_stream,
                   app_state, wire, delivered>>
    /\ UNCHANGED <<parserVars, runVars, constructVars, forwardVars>>

\* Client::close, up to its read.  `verified_ws.send(Message::Close(None))`
\* is not awaited: the future is dropped unpolled and nothing is written.
Close ==
    /\ pc = "idle"
    /\ IF is_established
       THEN IF websocket_stream # None
            THEN /\ verified_ws' = websocket_stream
                 /\ websocket_stream' = None
                 /\ pc' = "close_read"
                 /\ UNCHANGED ret
            ELSE /\ ret' = Returned("close", "NotDefined")
                 /\ UNCHANGED <<verified_ws, websocket_stream, pc>>
       ELSE /\ ret' = Returned("close", "NotDefined")
            /\ UNCHANGED <<verified_ws, websocket_stream, pc>>
    /\ UNCHANGED <<is_secure, is_established, callback, app_state, conns, wire,
                   seen, on_text>>
    /\ UNCHANGED <<peerVars, parserVars, runVars, constructVars, forwardVars>>

\* `let close = verified_ws.next().await;` and the return of close.
CloseRead ==
    /\ pc = "close_read"
    /\ StreamReady
    /\ ret' = Returned("close", "Ok")
    /\ pc' = "idle"
    /\ conns' = Drop(conns, verified_ws)
    /\ verified_ws' = None
    /\ Discarded
    /\ UNCHANGED <<is_secure, is_established, websocket_stream, callback,
                   app_state, wire, seen, on_text, delivered>>
    /\ UNCHANGED <<parserVars, runVars, constructVars, forwardVars>>

\* TransportClient::register on the TransportWebSocketClient that wraps
\* the client, up to its request: `self` is moved into the call.
Register ==
    /\ pc = "idle"
    /\ pc' = "register"
    /\ UNCHANGED <<is_secure, is_established, websocket_stream, verified_ws,
                   callback, app_state, ret, conns, wire, seen, on_text>>
    /\ UNCHANGED <<peerVars, parserVars, runVars, constructVars, forwardVars>>

\* service::websocket::register is answered: register returns Ok(response),
\* or the request's unwrap / expect panics.  Either way the client it was
\* given is dropped, and the stream it held with it.
RegisterReturn(answered) ==
    /\ pc = "register"
    /\ IF answered
       THEN /\ ret' = Returned("register", "Ok")
            /\ pc' = "dropped"
       ELSE /\ pc' = "panicked"
            /\ UNCHANGED ret
    /\ conns' = Drop(conns, websocket_stream)
    /\ websocket_stream' = None
    /\ Discarded
    /\ UNCHANGED <<is_secure, is_established, verified_ws, callback, app_state,
                   wire, seen, on_text, delivered>>
    /\ UNCHANGED <<parserVars, runVars, constructVars, forwardVars>>

(***************************************************************************)
(* The environment: the peer.  Nothing writes AppState.running after the   *)
(* constructors: change_app_state is commented out.                        *)
(***************************************************************************)
ConnOpen == Len(conns) > 0 /\ conns[Len(conns)].open

PeerDeliver(item) ==
    /\ ConnOpen
    /\ ~peer_ended
    /\ delivered < MaxFrames
    /\ inbox' = Append(inbox, item)
    /\ delivered' = delivered + 1
    /\ UNCHANGED <<peer_ended, clientVars, parserVars, runVars, constructVars, forwardVars>>

PeerEnd ==
    /\ ConnOpen
    /\ ~peer_ended
    /\ peer_ended' = TRUE
    /\ UNCHANGED <<inbox, delivered, clientVars, parserVars, runVars, constructVars, forwardVars>>

(***************************************************************************)
(* WebexWebSocketClient (lib.rs): device resolution and run.               *)
(***************************************************************************)
\* Device.name of the descriptor get_device_info_or_create builds.
ClientName == "rust-spark-client"

DeviceNames == { ClientName, "rust-spark-clienT" }

Device(name, url) == [name |-> name, web_socket_url |-> url]

RemoteDevices == { Device(n, u) : n \in DeviceNames, u \in {"wss://h", "ws://h"} }

DeviceLists == UNION { [1..n -> RemoteDevices] : n \in 0..MaxDevices }

\* The record the cloud answers a creation request with.
CreatedDevice == Device(ClientName, "wss://h")

\* Matches, were the scan of the fetched list to find nothing.
NoMatches(list) == {}

\* `for device in devices.devices { if device.name == device_data.name ..`
Matches(list) == { i \in 1..Len(list) : list[i].name = ClientName }

\* FirstMatch, were the scan to go on to the last device of the name.
LastMatch(list) == list[CHOOSE i \in Matches(list) : \A j \in Matches(list) : i >= j]

FirstMatch(list) == list[CHOOSE i \in Matches(list) : \A j \in Matches(list) : i <= j]

\* Option<bool> arguments of get_device_info_or_create.
CheckExisting == { "None", "Some(true)", "Some(false)" }

\* check_existing.unwrap_or(true)
UnwrapOrTrue(check_existing) == check_existing # "Some(false)"

\* One returned call: whether it looked the list up, what get_devices met,
\* the record it returned, and whether it had the cloud create a device.
Resolution(looked_up, listing, device, created) ==
    [looked_up |-> looked_up, listing |-> listing, device |-> device,
     created |-> created]

\* No run is under way.
RunOff ==
    /\ run_pc = "off"
    /\ run_ret = "none"
    /\ device_info = <<>>
    /\ devices = <<>>
    /\ ws_stream = None
    /\ resolved = <<>>
    /\ resolving = <<>>

\* WebexWebSocketClient::new, against a cloud that lists `listed`.
RunStart(listed) ==
    /\ run_pc = "start"
    /\ run_ret = "none"
    /\ device_info = <<>>
    /\ devices = listed
    /\ ws_stream = None
    /\ resolved = <<>>
    /\ resolving = <<>>

\* A call of get_device_info_or_create that has not returned: who made
\* it ("run" or "caller"), whether it looks the list up, what get_devices
\* met ("pending" until it is answered, "skipped" when the list is not
\* looked up), and the request the call is suspended in.
Call(caller, looked_up, listing, at) ==
    [caller |-> caller, looked_up |-> looked_up, listing |-> listing, at |-> at]

\* The requests a call that looks the list up, or does not, begins with.
FirstRequest(caller, looked_up) ==
    IF looked_up
    THEN Call(caller, TRUE, "pending", "get_devices")
    ELSE Call(caller, FALSE, "skipped", "create_device")

\* `self.device_info = Some(..); return Ok(..)`: the record is stored as the
\* call returns, and run goes on to its connect.
ResolveReturns(call, device, created) ==
    /\ device_info' = <<device>>
    /\ resolved' = Append(resolved,
                          Resolution(call.looked_up, call.listing, device, created))
    /\ resolving' = <<>>
    /\ run_pc' = IF call.caller = "run" THEN "connect" ELSE "start"

\* unwrap / expect on a failed request or an undecodable body.
ResolvePanics ==
    /\ run_pc' = "panicked"
    /\ resolving' = <<>>
    /\ UNCHANGED <<device_info, resolved>>

\* run, lines 442-447: the test of device_info, and the call
\* get_device_info_or_create(Some(true)) up to its first request.
RunProvision ==
    /\ run_pc = "start"
    /\ resolving = <<>>
    /\ IF device_info # <<>>
       THEN /\ run_pc' = "connect"
            /\ UNCHANGED resolving
       ELSE /\ resolving' = <<FirstRequest("run", TRUE)>>
            /\ UNCHANGED run_pc
    /\ UNCHANGED <<run_ret, device_info, devices, ws_stream, resolved>>
    /\ UNCHANGED <<clientVars, peerVars, parserVars, constructVars, forwardVars>>

\* get_device_info_or_create, called on the client before run, up to its
\* first request.
GetDeviceInfoOrCreate(check_existing) ==
    /\ run_pc = "start"
    /\ resolving = <<>>
    /\ Len(resolved) < MaxResolves
    /\ resolving' = <<FirstRequest("caller", UnwrapOrTrue(check_existing))>>
    /\ UNCHANGED <<run_pc, run_ret, device_info, devices, ws_stream, resolved>>
    /\ UNCHANGED <<clientVars, peerVars, parserVars, constructVars, forwardVars>>

\* get_devices is answered, and the scan of what it fetched.  listing is
\* what the request meets: "panic" (it fails, or the body does not decode:
\* unwrap / expect), "none" (any status but 200), "some".  With no match
\* the call goes straight on to the creation request.
GetDevices(listing) ==
    /\ resolving # <<>>
    /\ resolving[1].at = "get_devices"
    /\ LET call == [resolving[1] EXCEPT !.listing = listing]
           fetched == IF listing = "some" THEN devices ELSE <<>>
       IN  IF listing = "panic"
           THEN ResolvePanics
           ELSE IF Matches(fetched) # {}
           THEN ResolveReturns(call, FirstMatch(fetched), FALSE)
           ELSE /\ resolving' = <<[call EXCEPT !.at = "create_device"]>>
                /\ UNCHANGED <<run_pc, device_info, resolved>>
    /\ UNCHANGED <<run_ret, devices, ws_stream>>
    /\ UNCHANGED <<clientVars, peerVars, parserVars, constructVars, forwardVars>>

\* The creation request reaches the cloud, which adds the device to its
\* list, or fails on the way (`.send().await.unwrap()`).
CreateDevice(posted) ==
    /\ resolving # <<>>
    /\ resolving[1].at = "create_device"
    /\ IF posted
       THEN /\ devices' = Append(devices, CreatedDevice)
            /\ resolving' = <<[resolving[1] EXCEPT !.at = "created"]>>
            /\ UNCHANGED <<run_pc, device_info, resolved>>
       ELSE /\ ResolvePanics
            /\ UNCHANGED devices
    /\ UNCHANGED <<run_ret, ws_stream>>
    /\ UNCHANGED <<clientVars, peerVars, parserVars, constructVars, forwardVars>>

\* The cloud's answer to the creation request is decoded
\* (`.json().await.expect(..)`) and the call returns the created record.
\* The branch that returns Err(CreationError) needs create_device to
\* return None, which it never does: it returns Some or panics.
CreateDeviceAnswer(decoded) ==
    /\ resolving # <<>>
    /\ resolving[1].at = "created"
    /\ IF decoded
       THEN ResolveReturns(resolving[1], CreatedDevice, TRUE)
       ELSE ResolvePanics
    /\ UNCHANGED <<run_ret, devices, ws_stream>>
    /\ UNCHANGED <<clientVars, peerVars, parserVars, constructVars, forwardVars>>

\* run, lines 450-483: Url::parse(..).unwrap(), the platform certificates,
\* connect_async_tls_with_config(..).expect("Failed to connect").
RunConnect(handshake_ok) ==
    /\ run_pc = "connect"
    /\ Len(conns) < MaxConns
    /\ IF UrlParses(device_info[1].web_socket_url) /\ handshake_ok
       THEN /\ conns' = Append(conns,
                        [secure |-> MaybeTlsStream(device_info[1].web_socket_url, TRUE),
                         connector |-> TRUE,
                         url |-> device_info[1].web_socket_url,
                         open |-> TRUE])
            /\ ws_stream' = Len(conns) + 1
            /\ run_pc' = "auth"
            /\ Discarded
       ELSE /\ run_pc' = "panicked"
            /\ UNCHANGED <<conns, ws_stream, inbox, peer_ended>>
    /\ UNCHANGED <<run_ret, device_info, devices, delivered, resolved, resolving>>
    /\ UNCHANGED <<is_secure, is_established, websocket_stream, verified_ws,
                   callback, app_state, pc, ret, wire, seen, on_text>>
    /\ UNCHANGED <<parserVars, constructVars, forwardVars>>

\* `let _ = ws_stream.send(Message::Text(auth_data.to_string())).await;`
RunAuth(wrote) ==
    /\ run_pc = "auth"
    /\ wire' = IF wrote
               THEN Append(wire, [conn |-> ws_stream, kind |-> "Text",
                                  payload |-> "authorization"])
               ELSE wire
    /\ run_pc' = "loop"
    /\ UNCHANGED <<run_ret, device_info, devices, ws_stream, resolved, resolving>>
    /\ UNCHANGED <<is_secure, is_established, websocket_stream, verified_ws,
                   callback, app_state, pc, ret, conns, seen, on_text>>
    /\ UNCHANGED <<peerVars, parserVars, constructVars, forwardVars>>

\* RunArm with the Binary, Ping, Pong and Frame arms leaving the loop.
RunArmControlBreaks(item) ==
    CASE item.kind \in {"Text", "Close"} -> "continue"
      [] OTHER                           -> "break"

\* The arms of run's match on what the read yielded.
RunArm(item) ==
    CASE item.kind = "Err"  -> "break"
      [] item.kind = "None" -> "break"
      [] OTHER              -> "continue"

\* One turn of run's receive loop.
RunRead ==
    /\ run_pc = "loop"
    /\ StreamReady
    /\ LET item == StreamNext
       IN  /\ seen' = IF item = EndOfStream THEN seen ELSE Append(seen, item)
           /\ inbox' = Consumed
           /\ run_pc' = IF RunArm(item) = "break" THEN "closing" ELSE "loop"
    /\ UNCHANGED <<run_ret, device_info, devices, ws_stream, resolved, resolving>>
    /\ UNCHANGED <<is_secure, is_established, websocket_stream, verified_ws,
                   callback, app_state, pc, ret, conns, wire, on_text>>
    /\ UNCHANGED <<peer_ended, delivered, parserVars, constructVars, forwardVars>>

\* run, lines 520-524: the Close frame's send is not awaited (nothing is
\* written), one more item is read, and run returns Ok(()).
RunClose ==
    /\ run_pc = "closing"
    /\ StreamReady
    /\ run_ret' = "Ok"
    /\ run_pc' = "done"
    /\ conns' = Drop(conns, ws_stream)
    /\ ws_stream' = None
    /\ Discarded
    /\ UNCHANGED <<device_info, devices, delivered, resolved, resolving>>
    /\ UNCHANGED <<is_secure, is_established, websocket_stream, verified_ws,
                   callback, app_state, pc, ret, wire, seen, on_text>>
    /\ UNCHANGED <<parserVars, constructVars, forwardVars>>

\* ServerLaunch, were launch to spawn run as a task of its own and go on
\* to the server without awaiting it.
ServerLaunchSpawned ==
    /\ run_pc \in {"start", "connect", "auth", "loop", "closing", "done"}
    /\ run_pc' = "serving"
    /\ UNCHANGED <<run_ret, device_info, devices, ws_stream, resolved, resolving>>
    /\ UNCHANGED <<clientVars, peerVars, parserVars, constructVars, forwardVars>>

\* launch, after `let _ = webex_ws.run().await;`: whatever run returned
\* is discarded and the webhook server is launched.
ServerLaunch ==
    /\ run_pc = "done"
    /\ run_pc' = "serving"
    /\ UNCHANGED <<run_ret, device_info, devices, ws_stream, resolved, resolving>>
    /\ UNCHANGED <<clientVars, peerVars, parserVars, constructVars, forwardVars>>

(***************************************************************************)
(* WebSocketClient of lib.rs: start_ws_client, the receive_messages and    *)
(* send_messages tasks it spawns, and the caller's use of the channel ends *)
(* it is handed.  start_ws_client borrows the client by `&self` and reads  *)
(* nothing of it: every call opens a connection of its own.                *)
(***************************************************************************)
\* mpsc::channel(32)
ChannelCapacity == 32

\* start_ws_client has not been called.
ForwardOff == forwards = <<>>

\* What a successful start_ws_client leaves: receive_messages holds the
\* stream half and send_messages, spawned and not yet polled, the sink
\* half; the channel is empty and both its ends are the caller's.  inbox
\* and peer_ended are the peer's side of the connection, seen is what
\* receive_messages read.  A send that found the queue full waits in
\* waiters, in the order of arrival, until it is given a permit.
Started(conn) ==
    [conn |-> conn, ws_receiver |-> TRUE, ws_sender |-> TRUE,
     inbox |-> <<>>, peer_ended |-> FALSE, seen |-> <<>>,
     channel |-> <<>>, waiters |-> <<>>, receiver_dropped |-> FALSE]

Waiter(from, msg) == [from |-> from, msg |-> msg, permit |-> FALSE]

\* The connection is closed once both halves of the split stream are
\* dropped.
HalvesDropped(cs, fw) ==
    IF fw.ws_receiver \/ fw.ws_sender THEN cs ELSE Drop(cs, fw.conn)

\* What the peer had queued on a connection is lost when it is closed.
HalfDropped(fw) ==
    IF fw.ws_receiver \/ fw.ws_sender THEN fw
    ELSE [fw EXCEPT !.inbox = <<>>, !.peer_ended = FALSE]

\* start_ws_client.  Url::parse(..).unwrap() and connect_async(url)
\* .await.expect("Failed to connect") panic before anything is spawned:
\* the client and the earlier calls' connections are as they were.  On
\* success the stream is split, receive_messages is spawned with the
\* stream half and a clone of the sender, send_messages is spawned with
\* the sink half, and the channel's two ends go to the caller.  Neither
\* task has been polled when the call returns.  Nothing is written.
StartWsClient(registration_url, handshake_ok) ==
    /\ Len(conns) < MaxConns
    /\ IF UrlParses(registration_url) /\ handshake_ok
       THEN /\ conns' = Append(conns,
                               [secure |-> MaybeTlsStream(registration_url, FALSE),
                                connector |-> FALSE,
                                url |-> registration_url, open |-> TRUE])
            /\ forwards' = Append(forwards, Started(Len(conns) + 1))
       ELSE UNCHANGED <<conns, forwards>>
    /\ UNCHANGED <<is_secure, is_established, websocket_stream, verified_ws,
                   callback, app_state, pc, ret, wire, seen, on_text>>
    /\ UNCHANGED <<peerVars, parserVars, runVars, constructVars>>

\* send_messages: its body is a comment.  At its first poll it returns and
\* the sink half is dropped.
SendMessages(f) ==
    /\ f \in 1..Len(forwards)
    /\ forwards[f].ws_sender
    /\ LET fw == HalfDropped([forwards[f] EXCEPT !.ws_sender = FALSE])
       IN  /\ forwards' = [forwards EXCEPT ![f] = fw]
           /\ conns' = HalvesDropped(conns, fw)
    /\ UNCHANGED <<is_secure, is_established, websocket_stream, verified_ws,
                   callback, app_state, pc, ret, wire, seen, on_text>>
    /\ UNCHANGED <<peerVars, parserVars, runVars, constructVars>>

\* What receive_messages does with the item its read yielded: `while let
\* Some(message)` ends on None, Ok(msg) goes to sender.send(msg), Err(e) is
\* printed.
ForwardArm(item) ==
    CASE item.kind = "None" -> "return"
      [] item.kind = "Err"  -> "continue"
      [] OTHER              -> "send"

\* The permits of the channel that neither a queued message nor a waiting
\* send holds.
FreePermits(fw) ==
    ChannelCapacity - Len(fw.channel)
        - Cardinality({ w \in 1..Len(fw.waiters) : fw.waiters[w].permit })

\* How a Sender::send(msg).await stands when it is first polled: it fails
\* once the Receiver is gone, completes when a permit is free, and
\* otherwise waits behind the sends that came before it.
SenderSend(fw) ==
    IF fw.receiver_dropped THEN "Err"
    ELSE IF FreePermits(fw) > 0 THEN "Ok" ELSE "Pending"

\* The sequence without its w-th element.
Without(seq, w) == [i \in 1..(Len(seq) - 1) |-> IF i < w THEN seq[i] ELSE seq[i + 1]]

\* The send of receive_messages that waits, if any.
TaskWaiters(fw) == { w \in 1..Len(fw.waiters) : fw.waiters[w].from = "task" }

CallerWaiters(fw) == { w \in 1..Len(fw.waiters) : fw.waiters[w].from = "caller" }

\* receive_messages returns: its stream half and its clone of the sender
\* are dropped.
ForwardReturns(fw) == HalfDropped([fw EXCEPT !.ws_receiver = FALSE])

\* One turn of receive_messages' loop, from the completion of
\* ws_stream.next().await to the next suspension: the item is taken off the
\* stream, and an Ok(msg) is sent into the channel.  With a free permit
\* the send completes at once; with the Receiver gone it fails at once and
\* the task returns; with the queue full the task is left suspended in the
\* send, holding the message.
ReceiveMessages(f) ==
    /\ f \in 1..Len(forwards)
    /\ forwards[f].ws_receiver
    /\ TaskWaiters(forwards[f]) = {}
    /\ forwards[f].inbox # <<>> \/ forwards[f].peer_ended
    /\ LET cur == forwards[f]
           item == IF cur.inbox # <<>> THEN Head(cur.inbox) ELSE EndOfStream
           arm == ForwardArm(item)
           sent == SenderSend(cur)
           read == IF item = EndOfStream THEN cur
                   ELSE [cur EXCEPT !.inbox = Tail(@), !.seen = Append(@, item)]
           fw == CASE arm = "return" -> ForwardReturns(read)
                   [] arm = "continue" -> read
                   [] arm = "send" /\ sent = "Err" -> ForwardReturns(read)
                   [] arm = "send" /\ sent = "Ok" ->
                          [read EXCEPT !.channel = Append(@, item)]
                   [] OTHER ->
                          [read EXCEPT !.waiters = Append(@, Waiter("task", item))]
       IN  /\ forwards' = [forwards EXCEPT ![f] = fw]
           /\ conns' = HalvesDropped(conns, fw)
    /\ UNCHANGED <<is_secure, is_established, websocket_stream, verified_ws,
                   callback, app_state, pc, ret, wire, seen, on_text>>
    /\ UNCHANGED <<peerVars, parserVars, runVars, constructVars>>

\* A waiting send is polled again and completes: with the Receiver gone it
\* fails, and with the permit it was given its message goes into the queue.
SendCompletes(fw, w) ==
    IF fw.receiver_dropped
    THEN [fw EXCEPT !.waiters = Without(@, w)]
    ELSE [fw EXCEPT !.waiters = Without(@, w),
                    !.channel = Append(@, fw.waiters[w].msg)]

SendCanComplete(fw, w) == fw.receiver_dropped \/ fw.waiters[w].permit

\* The suspended sender.send(msg).await of receive_messages completes: the
\* message goes into the queue and the loop goes on, or the Receiver is
\* gone and the task returns without reading what the peer sent meanwhile.
ReceiveMessagesSent(f) ==
    /\ f \in 1..Len(forwards)
    /\ \E w \in TaskWaiters(forwards[f]) :
          /\ SendCanComplete(forwards[f], w)
          /\ LET sent == SendCompletes(forwards[f], w)
                 fw == IF forwards[f].receiver_dropped
                       THEN ForwardReturns(sent) ELSE sent
             IN  /\ forwards' = [forwards EXCEPT ![f] = fw]
                 /\ conns' = HalvesDropped(conns, fw)
    /\ UNCHANGED <<is_secure, is_established, websocket_stream, verified_ws,
                   callback, app_state, pc, ret, wire, seen, on_text>>
    /\ UNCHANGED <<peerVars, parserVars, runVars, constructVars>>

\* What the caller sends through the Sender start_ws_client returned.
CallerMessages == { Frame("Text", "c") }

\* The channel holds a message of the caller, queued or waiting.
Backlogged(fw) ==
    \/ \E i \in 1..Len(fw.channel) : fw.channel[i] \in CallerMessages
    \/ CallerWaiters(fw) # {}

\* The caller sends a message through its Sender, whether or not
\* receive_messages still runs: the message goes into the queue when a
\* permit is free, and the send waits when none is.  Once the Receiver is
\* gone the send fails and changes nothing.
CallerSend(f, msg) ==
    /\ f \in 1..Len(forwards)
    /\ Cardinality({ g \in (1..Len(forwards)) \ {f} : Backlogged(forwards[g]) })
            < MaxBacklogs
    /\ LET cur == forwards[f]
           sent == SenderSend(cur)
       IN  /\ sent # "Err"
           /\ sent = "Pending" => Cardinality(CallerWaiters(cur)) < MaxWaiting
           /\ forwards' = [forwards EXCEPT ![f] =
                   IF sent = "Ok"
                   THEN [cur EXCEPT !.channel = Append(@, msg)]
                   ELSE [cur EXCEPT !.waiters = Append(@, Waiter("caller", msg))]]
    /\ UNCHANGED <<clientVars, peerVars, parserVars, runVars, constructVars>>

\* A waiting send of the caller completes.
CallerSent(f) ==
    /\ f \in 1..Len(forwards)
    /\ \E w \in CallerWaiters(forwards[f]) :
          /\ SendCanComplete(forwards[f], w)
          /\ forwards' = [forwards EXCEPT ![f] = SendCompletes(forwards[f], w)]
    /\ UNCHANGED <<clientVars, peerVars, parserVars, runVars, constructVars>>

\* The waiters after a permit was released: it goes to the first send that
\* waits without one.
Granted(waiters) ==
    LET waiting == { w \in 1..Len(waiters) : ~waiters[w].permit }
    IN  IF waiting = {} THEN waiters
        ELSE LET first == CHOOSE w \in waiting : \A v \in waiting : w <= v
             IN  [waiters EXCEPT ![first].permit = TRUE]

\* The caller receives from its Receiver: the oldest message leaves the
\* queue and its permit is released.
CallerRecv(f) ==
    /\ f \in 1..Len(forwards)
    /\ ~forwards[f].receiver_dropped
    /\ forwards[f].channel # <<>>
    /\ forwards' = [forwards EXCEPT ![f].channel = Tail(@),
                                    ![f].waiters = Granted(@)]
    /\ UNCHANGED <<clientVars, peerVars, parserVars, runVars, constructVars>>

\* The caller of start_ws_client drops the Receiver it was given: the
\* channel is closed and what it held is dropped with it.  The sends that
\* wait fail when they are next polled.
DropReceiver(f) ==
    /\ f \in 1..Len(forwards)
    /\ ~forwards[f].receiver_dropped
    /\ forwards' = [forwards EXCEPT ![f].receiver_dropped = TRUE,
                                    ![f].channel = <<>>]
    /\ UNCHANGED <<clientVars, peerVars, parserVars, runVars, constructVars>>

\* The peer of a connection start_ws_client opened sends an item on it ...
ForwardPeerDeliver(f, item) ==
    /\ f \in 1..Len(forwards)
    /\ conns[forwards[f].conn].open
    /\ ~forwards[f].peer_ended
    /\ delivered < MaxFrames
    /\ forwards' = [forwards EXCEPT ![f].inbox = Append(@, item)]
    /\ delivered' = delivered + 1
    /\ UNCHANGED <<inbox, peer_ended, clientVars, parserVars, runVars, constructVars>>

\* ... or ends the stream.
ForwardPeerEnd(f) ==
    /\ f \in 1..Len(forwards)
    /\ conns[forwards[f].conn].open
    /\ ~forwards[f].peer_ended
    /\ forwards' = [forwards EXCEPT ![f].peer_ended = TRUE]
    /\ UNCHANGED <<clientVars, peerVars, parserVars, runVars, constructVars>>

(***************************************************************************)
(* Parser actions.                                                         *)
(***************************************************************************)
\* Insert, were a keyword that is present to keep the entry it has.
InsertKeepsFirst(cmds, command, args, cb) ==
    [k \in (DOMAIN cmds) \cup {command} |->
        IF k \in DOMAIN cmds THEN cmds[k] ELSE [callback |-> cb, args |-> args]]

\* Parser::add_command: HashMap::insert, replacing an entry of the same key.
Insert(cmds, command, args, cb) ==
    [k \in (DOMAIN cmds) \cup {command} |->
        IF k = command THEN [callback |-> cb, args |-> args] ELSE cmds[k]]

AddCommand(command, args, cb) ==
    /\ commands' = Insert(commands, command, args, cb)
    /\ UNCHANGED <<plain_string_message, parse_result, dispatchVars>>
    /\ UNCHANGED <<clientVars, peerVars, runVars, constructVars, forwardVars>>

\* DoParse, were parse to take the entry it routes to out of the table.
DoParseConsuming ==
    /\ parse_result' = Parse(commands, plain_string_message)
    /\ commands' = IF parse_result'.kind = "Ok"
                   THEN [k \in (DOMAIN commands) \ {parse_result'.command} |->
                            commands[k]]
                   ELSE commands
    /\ UNCHANGED <<plain_string_message, dispatchVars>>
    /\ UNCHANGED <<clientVars, peerVars, runVars, constructVars, forwardVars>>

\* Parser::parse(&self, message): the table is borrowed shared.
DoParse ==
    /\ parse_result' = Parse(commands, plain_string_message)
    /\ UNCHANGED <<commands, plain_string_message, dispatchVars>>
    /\ UNCHANGED <<clientVars, peerVars, runVars, constructVars, forwardVars>>

(***************************************************************************)
(* The webhook dispatcher (lib.rs): webhook_listener, one invocation per   *)
(* event, each a task of its own, and WebexBotServer::add_command, all     *)
(* sharing WebexBotState.parser behind a tokio Mutex.                      *)
(***************************************************************************)
NoTask == 0

Handlers == 1..MaxHandlers

Registrars == (MaxHandlers + 1)..(MaxHandlers + MaxRegistrars)

\* The texts of the messages the events are about: empty, a lone mention,
\* a keyword with no argument, with one, and another keyword.
WebhookMessages ==
    { Join(ws) : ws \in { << <<>> >>,
                          << <<"@", "b">> >>,
                          << <<"@", "b">>, <<"r">> >>,
                          << <<"@", "b">>, <<"r">>, <<"r">> >>,
                          << <<"@", "b">>, <<"p">> >> } }

\* Message.text, an Option<String>: <<>> or <<text>>.
WebhookTexts == { <<>> } \cup { <<m>> : m \in WebhookMessages }

\* What the hosting application registers: "r" with one descriptor, and
\* "r" again with two and another callback.
Registrations ==
    { [command |-> <<"r">>, callback |-> "cb1",
       args |-> << [name |-> "topic", required |-> TRUE] >>],
      [command |-> <<"r">>, callback |-> "cb2",
       args |-> << [name |-> "topic", required |-> TRUE],
                   [name |-> "duration", required |-> FALSE] >>] }

HandlerAt(where, text, parsed) == [pc |-> where, text |-> text, parsed |-> parsed]

\* WebexBotServer::new: Arc::new(Mutex::new(Parser::new())); no event yet.
DispatchStart ==
    /\ parser_lock = NoTask
    /\ handlers = [t \in Handlers |-> HandlerAt("idle", <<>>, NotParsed)]
    /\ registrars = [r \in Registrars |-> "idle"]

\* LockFree, were lock() to return a guard whoever holds one.
LockIgnored == TRUE

\* `.lock().await` completes only when no task holds the guard.
LockFree == parser_lock = NoTask

\* webhook_listener, lines 189-195: get_message_details (its unwrap and
\* expect panic when the request or the decoding fails), then
\* `detailed_message_info.text.clone().unwrap()`.
WebhookFetch(t, fetched, text) ==
    /\ handlers[t].pc = "idle"
    /\ handlers' = [handlers EXCEPT ![t] =
                        IF fetched /\ text # <<>>
                        THEN HandlerAt("lock", text, NotParsed)
                        ELSE HandlerAt("panicked", <<>>, NotParsed)]
    /\ UNCHANGED <<commands, plain_string_message, parse_result, parser_lock,
                   registrars>>
    /\ UNCHANGED <<clientVars, peerVars, runVars, constructVars, forwardVars>>

\* webhook_listener, lines 196-210: from the completion of lock() to the
\* first suspension of the callback's future, or to the return.  A panic
\* in parse unwinds the task and drops the guard; the guard otherwise
\* lives to the end of the function, across the callback's .await.
WebhookParse(t) ==
    /\ handlers[t].pc = "lock"
    /\ LockFree
    /\ LET parsed_value == Parse(commands, handlers[t].text[1])
       IN  CASE parsed_value.kind = "Ok" ->
                    /\ handlers' = [handlers EXCEPT ![t] =
                                        HandlerAt("callback", @.text, parsed_value)]
                    /\ parser_lock' = t
             [] parsed_value.kind = "Err" ->
                    /\ handlers' = [handlers EXCEPT ![t] =
                                        HandlerAt("done", @.text, parsed_value)]
                    /\ UNCHANGED parser_lock
             [] OTHER ->
                    /\ handlers' = [handlers EXCEPT ![t] =
                                        HandlerAt("panicked", @.text, parsed_value)]
                    /\ UNCHANGED parser_lock
    /\ UNCHANGED <<commands, plain_string_message, parse_result, registrars>>
    /\ UNCHANGED <<clientVars, peerVars, runVars, constructVars, forwardVars>>

\* The callback's future completes; webhook_listener returns and the guard
\* is dropped.
CallbackReturns(t) ==
    /\ handlers[t].pc = "callback"
    /\ handlers' = [handlers EXCEPT ![t].pc = "done"]
    /\ parser_lock' = IF parser_lock = t THEN NoTask ELSE parser_lock
    /\ UNCHANGED <<commands, plain_string_message, parse_result, registrars>>
    /\ UNCHANGED <<clientVars, peerVars, runVars, constructVars, forwardVars>>

\* WebexBotServer::add_command is called and comes to `server.lock().await`.
ServerAddCommandCall(r) ==
    /\ registrars[r] = "idle"
    /\ registrars' = [registrars EXCEPT ![r] = "waiting"]
    /\ UNCHANGED <<commands, plain_string_message, parse_result, parser_lock,
                   handlers>>
    /\ UNCHANGED <<clientVars, peerVars, runVars, constructVars, forwardVars>>

\* ... the lock is acquired, Parser::add_command inserts, and the guard is
\* dropped on return: nothing suspends in between.
ServerAddCommand(r, registration) ==
    /\ registrars[r] = "waiting"
    /\ LockFree
    /\ commands' = Insert(commands, registration.command, registration.args,
                          registration.callback)
    /\ registrars' = [registrars EXCEPT ![r] = "done"]
    /\ UNCHANGED <<plain_string_message, parse_result, parser_lock, handlers>>
    /\ UNCHANGED <<clientVars, peerVars, runVars, constructVars, forwardVars>>

\* Parser::new, and the message handed to parse.
ParserStart(msgs) ==
    /\ commands = << >>
    /\ plain_string_message \in msgs
    /\ parse_result = NotParsed
    /\ DispatchStart

ParserInit ==
    /\ ParserStart(Messages)
    /\ ClientStart(FALSE, FALSE)
    /\ PeerStart
    /\ ForwardOff
    /\ RunOff

ParserNext ==
    \/ \E k \in Keywords, a \in ArgLists : AddCommand(k, a, "cb1")
    \/ DoParse

ParserSpec == ParserInit /\ [][ParserNext]_vars

(***************************************************************************)
(* The dispatcher: events and registrations in any interleaving.  The      *)
(* mutex, not the order of the application's calls, is what keeps them     *)
(* apart.                                                                  *)
(***************************************************************************)
DispatchInit ==
    /\ ParserStart({<<>>})
    /\ ClientStart(FALSE, FALSE)
    /\ PeerStart
    /\ ForwardOff
    /\ RunOff

DispatchNext ==
    \/ \E t \in Handlers, fetched \in BOOLEAN, text \in WebhookTexts :
            WebhookFetch(t, fetched, text)
    \/ \E t \in Handlers : WebhookParse(t)
    \/ \E t \in Handlers : CallbackReturns(t)
    \/ \E r \in Registrars : ServerAddCommandCall(r)
    \/ \E r \in Registrars, registration \in Registrations :
            ServerAddCommand(r, registration)

DispatchSpec == DispatchInit /\ [][DispatchNext]_vars

(***************************************************************************)
(* The dispatcher as the API lets it run: add_command borrows the server   *)
(* that launch consumes, so every registration is over before the first    *)
(* event is handled.                                                       *)
(***************************************************************************)
RECURSIVE InsertAll(_)
\* The table after the registrations regs, made in this order.
InsertAll(regs) ==
    IF regs = <<>> THEN << >>
    ELSE LET last == regs[Len(regs)]
         IN  Insert(InsertAll(SubSeq(regs, 1, Len(regs) - 1)),
                    last.command, last.args, last.callback)

LaunchedInit ==
    /\ \E regs \in UNION { [1..k -> Registrations] : k \in 0..MaxRegistrars } :
          /\ commands = InsertAll(regs)
          /\ registrars = [r \in Registrars |->
                              IF r - MaxHandlers <= Len(regs) THEN "done" ELSE "idle"]
    /\ plain_string_message = <<>>
    /\ parse_result = NotParsed
    /\ parser_lock = NoTask
    /\ handlers = [t \in Handlers |-> HandlerAt("idle", <<>>, NotParsed)]
    /\ ClientStart(FALSE, FALSE)
    /\ PeerStart
    /\ ForwardOff
    /\ RunOff

LaunchedNext ==
    \/ \E t \in Handlers, fetched \in BOOLEAN, text \in WebhookTexts :
            WebhookFetch(t, fetched, text)
    \/ \E t \in Handlers : WebhookParse(t)
    \/ \E t \in Handlers : CallbackReturns(t)

LaunchedSpec == LaunchedInit /\ [][LaunchedNext]_vars

\* Every handler is scheduled whenever it can step; nothing obliges a
\* callback's future to complete.
FairLaunchedSpec ==
    /\ LaunchedSpec
    /\ \A t \in Handlers : WF_vars(WebhookParse(t))

(***************************************************************************)
(* The transport as the crate builds it: WebSocketClient::new, then any    *)
(* calls.  _is_established is written by new alone, and new writes false:  *)
(* no behaviour reaches the write of send (SendReturn, SendDropped), the   *)
(* receive loop (ListenCheck, ListenRead) or the read of close             *)
(* (CloseRead), which are steps of no next-state relation.                 *)
(***************************************************************************)
Init ==
    /\ \E secure \in BOOLEAN : ClientStart(secure, FALSE)
    /\ PeerStart
    /\ ForwardOff
    /\ ParserStart({<<>>})
    /\ RunOff

Next ==
    \/ \E u \in Urls, ok \in BOOLEAN : Connect(u, ok)
    \/ \E t \in Texts, w \in BOOLEAN : Send(t, w)
    \/ \E cb \in BOOLEAN : ListenForMessages(cb)
    \/ Close
    \/ Register
    \/ \E answered \in BOOLEAN : RegisterReturn(answered)
    \/ \E item \in StreamItems : PeerDeliver(item)
    \/ PeerEnd

Spec == Init /\ [][Next]_vars

(***************************************************************************)
(* The realtime client as launch drives it: new, then run.                 *)
(***************************************************************************)
Listings == { "panic", "none", "some" }

RunInit ==
    /\ \E listed \in DeviceLists : RunStart(listed)
    /\ ClientStart(FALSE, FALSE)
    /\ PeerStart
    /\ ForwardOff
    /\ ParserStart({<<>>})

RunNext ==
    \/ RunProvision
    \/ \E listing \in Listings : GetDevices(listing)
    \/ \E posted \in BOOLEAN : CreateDevice(posted)
    \/ \E decoded \in BOOLEAN : CreateDeviceAnswer(decoded)
    \/ \E ok \in BOOLEAN : RunConnect(ok)
    \/ \E w \in BOOLEAN : RunAuth(w)
    \/ RunRead
    \/ RunClose
    \/ ServerLaunch
    \/ \E item \in StreamItems : PeerDeliver(item)
    \/ PeerEnd

RunSpec == RunInit /\ [][RunNext]_vars

\* The task that runs run is scheduled whenever its read has completed;
\* nothing obliges the peer to send or to end the stream.
FairRunSpec ==
    /\ RunSpec
    /\ WF_vars(RunRead)
    /\ WF_vars(RunClose)

(***************************************************************************)
(* Device resolution by itself: get_device_info_or_create called any       *)
(* number of times on a new client, and the call run makes.                *)
(***************************************************************************)
ResolveNext ==
    \/ \E ce \in CheckExisting : GetDeviceInfoOrCreate(ce)
    \/ RunProvision
    \/ \E listing \in Listings : GetDevices(listing)
    \/ \E posted \in BOOLEAN : CreateDevice(posted)
    \/ \E decoded \in BOOLEAN : CreateDeviceAnswer(decoded)

ResolveSpec == RunInit /\ [][ResolveNext]_vars

(***************************************************************************)
(* lib.rs declares no `mod websocket`: a program has the clients of lib.rs *)
(* or the WebSocketClient of websocket.rs, never both.                     *)
(***************************************************************************)
\* No WebSocketClient of websocket.rs is built, and so APP_STATE is never
\* set.
ClientAbsent ==
    /\ is_secure = FALSE
    /\ is_established = FALSE
    /\ websocket_stream = None
    /\ verified_ws = None
    /\ callback = FALSE
    /\ app_state = "unset"
    /\ pc = "absent"
    /\ ret = Returned("none", "none")
    /\ conns = <<>>
    /\ wire = <<>>
    /\ seen = <<>>
    /\ on_text = <<>>
    /\ NoConstruction

(***************************************************************************)
(* The WebSocketClient of lib.rs: start_ws_client, the task it spawns, the *)
(* peer, and the caller's hold on the channel.                             *)
(***************************************************************************)
\* What the peer sends in these behaviours: a text or a read error.
ForwardItems == { Frame("Text", "x"), Frame("Err", "") }

\* The URLs start_ws_client is called with in these behaviours.
ForwardUrls == { "ws://h", "not a url" }

ForwardInit ==
    /\ ClientAbsent
    /\ PeerStart
    /\ ForwardOff
    /\ ParserStart({<<>>})
    /\ RunOff

ForwardNext ==
    \/ \E u \in ForwardUrls, ok \in BOOLEAN : StartWsClient(u, ok)
    \/ \E f \in 1..MaxConns : SendMessages(f)
    \/ \E f \in 1..MaxConns : ReceiveMessages(f)
    \/ \E f \in 1..MaxConns : ReceiveMessagesSent(f)
    \/ \E f \in 1..MaxConns, msg \in CallerMessages : CallerSend(f, msg)
    \/ \E f \in 1..MaxConns : CallerSent(f)
    \/ \E f \in 1..MaxConns : CallerRecv(f)
    \/ \E f \in 1..MaxConns : DropReceiver(f)
    \/ \E f \in 1..MaxConns, item \in ForwardItems : ForwardPeerDeliver(f, item)
    \/ \E f \in 1..MaxConns : ForwardPeerEnd(f)

ForwardSpec == ForwardInit /\ [][ForwardNext]_vars

(***************************************************************************)
(* The transport's states, read off the client's fields.                   *)
(***************************************************************************)
\* send, listen_for_messages and close act on the stream only here.
Listening == is_established /\ websocket_stream # None

InListenLoop == pc \in {"listen_check", "listen_read"}

\* connect returned Ok and the client holds the stream it opened.
Connected == pc = "idle" /\ websocket_stream # None

(***************************************************************************)
(* Properties of the transport.                                            *)
(***************************************************************************)
\* C1: a send issued in any state before Listening returns the error
\* NotDefined in that same step: it writes no frame, leaves the task
\* running (neither suspended nor panicked) and keeps the held stream.
C1_SendBeforeListeningIsRefused ==
    [][\A t \in Texts, w \in BOOLEAN :
          (Send(t, w) /\ ~Listening) =>
              /\ ret' = Returned("send", "NotDefined")
              /\ wire' = wire
              /\ pc' = "idle"]_vars

\* A send was refused on a client that holds a connected stream, and
\* nothing was written.
C1_Witness ==
    /\ ret = Returned("send", "NotDefined")
    /\ websocket_stream # None
    /\ conns[websocket_stream].open
    /\ wire = <<>>

\* C2: right after connect returned Ok, a send is not refused and its text
\* frame is written to the connection, and a listen_for_messages enters the
\* loop.
C2_ConnectThenSendSucceeds ==
    [][(ret = Returned("connect", "Ok") /\ pc = "idle") =>
          /\ \A t \in Texts :
                Send(t, TRUE) =>
                    /\ ret' # Returned("send", "NotDefined")
                    /\ wire' = Append(wire, [conn |-> websocket_stream,
                                             kind |-> "Text", payload |-> t])
          /\ \A cb \in BOOLEAN :
                ListenForMessages(cb) => pc' = "listen_check"]_vars

\* C3: when run's receive loop reads a Close frame it leaves the loop for
\* the closing sequence.
C3_CloseFrameEndsLoop ==
    [][(RunRead /\ StreamNext.kind = "Close") => run_pc' = "closing"]_vars

\* C10: a listen_for_messages on a connected client whose stream yields
\* a read error goes on to read it, or has returned AwayError.
C10_StreamErrorReturnsAway ==
    [][\A cb \in BOOLEAN :
          (ListenForMessages(cb) /\ Connected
                /\ inbox # <<>> /\ Head(inbox).kind = "Err") =>
              \/ InListenLoop'
              \/ ret' = Returned("listen_for_messages", "AwayError")]_vars

(***************************************************************************)
(* Properties of the parser.  Each is stated on singly spaced messages.    *)
(***************************************************************************)
\* The message's tokens: its whitespace-separated, non-empty pieces.
IsToken(w) == w # <<>>

Tokens(msg) == SelectSeq(Split(msg), IsToken)

\* The message is its tokens separated by single spaces, with no space
\* before the first or after the last: the messages on which the pieces
\* split(' ') cuts are the tokens.  The empty message is one of them.
SinglySpaced(msg) == Join(Tokens(msg)) = msg

\* The names of a list of descriptors, or of a list of bindings.
ArgNamesOf(args) == [i \in 1..Len(args) |-> args[i].name]

BoundNamesOf(pairs) == [i \in 1..Len(pairs) |-> pairs[i][1]]

IsRequired(arg) == arg.required

IsOptional(arg) == ~arg.required

\* The message names a registered keyword as its second token.
Routed(msg) ==
    /\ SinglySpaced(msg)
    /\ Len(Tokens(msg)) >= 2
    /\ Tokens(msg)[2] \in DOMAIN commands

RegisteredArgs(msg) == commands[Tokens(msg)[2]].args

\* C5: for a registered keyword with n descriptors and a message with at
\* least n tokens after the keyword, parse returns a command whose required
\* and optional lists hold the required and the optional descriptors, each
\* in registration order: n bindings in all.
C5_EnoughTokensBindAll ==
    [][(DoParse /\ Routed(plain_string_message)
                /\ Len(Tokens(plain_string_message)) - 2
                       >= Len(RegisteredArgs(plain_string_message))) =>
          /\ parse_result'.kind = "Ok"
          /\ BoundNamesOf(parse_result'.required_arguments)
                = ArgNamesOf(SelectSeq(RegisteredArgs(plain_string_message), IsRequired))
          /\ BoundNamesOf(parse_result'.optional_arguments)
                = ArgNamesOf(SelectSeq(RegisteredArgs(plain_string_message), IsOptional))]_vars

\* C6: for a registered keyword with n descriptors and a message with fewer
\* than n tokens after the keyword, parse fails with MissingArguments.
C6_TooFewTokensFail ==
    [][(DoParse /\ Routed(plain_string_message)
                /\ Len(Tokens(plain_string_message)) - 2
                       < Len(RegisteredArgs(plain_string_message))) =>
          parse_result' = ParseErr(MISSING_ARGS)]_vars

\* C7: parsing a message of no token or of one token fails with NoCommand.
C7_NoKeywordFails ==
    [][(DoParse /\ SinglySpaced(plain_string_message)
                /\ Len(Tokens(plain_string_message)) <= 1) =>
          parse_result' = ParseErr(NO_CMD)]_vars

\* C8: parsing a message whose second token is no key of the command table
\* fails with UnknownCommand.
C8_UnknownKeywordFails ==
    [][(DoParse /\ SinglySpaced(plain_string_message)
                /\ Len(Tokens(plain_string_message)) >= 2
                /\ Tokens(plain_string_message)[2] \notin DOMAIN commands) =>
          parse_result' = ParseErr(INVALID_CMD)]_vars

\* The (name, value) pairs a successful parse returned.
Bindings(result) ==
    { result.required_arguments[j] : j \in 1..Len(result.required_arguments) }
        \cup { result.optional_arguments[j] : j \in 1..Len(result.optional_arguments) }

\* The values bound to a name: empty when the descriptor was left unbound.
ValuesBoundTo(result, name) == { p[2] : p \in { q \in Bindings(result) : q[1] = name } }

\* C9: in a successful parse the i-th descriptor is bound to the i-th token
\* after the keyword, token 2+i of the message.
C9_BindsTokensAfterKeyword ==
    [][(DoParse /\ Routed(plain_string_message) /\ parse_result'.kind = "Ok") =>
          \A i \in 1..Len(RegisteredArgs(plain_string_message)) :
              \A v \in ValuesBoundTo(parse_result',
                                     RegisteredArgs(plain_string_message)[i].name) :
                  /\ Len(Tokens(plain_string_message)) >= 2 + i
                  /\ v = Tokens(plain_string_message)[2 + i]]_vars

(***************************************************************************)
(* Properties of the receive loops.                                        *)
(***************************************************************************)
\* C11: a listen_for_messages that is given a callback on a connected
\* client whose peer has delivered a Text frame goes on, with the callback,
\* to read that frame.
C11_TextFramesReachCallbackInOrder ==
    [][(ListenForMessages(TRUE) /\ Connected
            /\ inbox # <<>> /\ Head(inbox).kind = "Text") =>
          /\ callback'
          /\ verified_ws' = websocket_stream
          /\ inbox' = inbox]_vars

\* The frames run's loop attaches no meaning to.
IgnoredKinds == { "Binary", "Ping", "Pong", "Frame" }

\* C12: a Binary, Ping, Pong or raw Frame item invokes no callback and does
\* not end the receive loop: the read that consumes it goes back to the
\* next read, and the stream, the connections, what was written and what
\* was returned are as they were.
C12_ControlFramesAreIgnored ==
    [][(RunRead /\ StreamNext.kind \in IgnoredKinds) =>
          /\ run_pc' = "loop"
          /\ seen' = Append(seen, StreamNext)
          /\ UNCHANGED <<on_text, run_ret, conns, wire, ws_stream,
                         device_info>>]_vars

\* run read a Ping and a raw Frame: it is still in its loop on the same
\* open connection.
C12_Witness ==
    /\ run_pc = "loop"
    /\ seen = <<Frame("Ping", ""), Frame("Frame", "")>>
    /\ on_text = <<>>
    /\ ws_stream # None
    /\ conns[ws_stream].open

(***************************************************************************)
(* Properties of close and connect.                                        *)
(***************************************************************************)
\* C13: a close on a client that is not Listening returns Ok, writes
\* nothing and leaves the client as it was.
C13_CloseWhenNotListeningIsNoOp ==
    [][(Close /\ ~Listening) =>
          /\ ret' = Returned("close", "Ok")
          /\ UNCHANGED <<wire, conns, websocket_stream, is_established, pc>>]_vars

\* A Close frame was written to connection c.
CloseFrameWritten(c) ==
    \E i \in 1..Len(wire) : wire[i].conn = c /\ wire[i].kind = "Close"

\* C14: when the close sequence of run comes to read the peer's last
\* item, a Close frame has been written to that connection; the
\* connection is closed once the sequence is over.
C14_CloseFrameIsTransmitted ==
    [][RunClose =>
          (CloseFrameWritten(ws_stream) /\ ~conns'[ws_stream].open)]_vars

\* C15: the close sequence of run, waiting for the peer's last item,
\* eventually returns, whether or not the peer sends anything more.
C15_CloseWaitIsBounded ==
    (run_pc = "closing") ~> (run_pc = "done")

\* C16: a connect whose URL does not parse or whose handshake fails
\* returns the error ConnectFailed to its caller: the task goes on, and
\* the client holds no stream.
C16_ConnectFailureIsReturned ==
    [][\A u \in Urls, ok \in BOOLEAN :
          (Connect(u, ok) /\ ~(UrlParses(u) /\ ok)) =>
              /\ pc' = "idle"
              /\ ret' = Returned("connect", "ConnectFailed")
              /\ websocket_stream' = None]_vars

(***************************************************************************)
(* Properties of device resolution and of startup.                         *)
(***************************************************************************)
\* The positions of a list that hold a device of the client's name.
NamedAsClient(list) == { i \in 1..Len(list) : list[i].name = ClientName }

\* The call that has just returned.
LastResolved == resolved[Len(resolved)]

\* What C17 asks of a step that resolves against a fetched list holding a
\* device of the client's name.
ReturnsListedDevice ==
    /\ devices' = devices
    /\ Len(resolved') = Len(resolved) + 1
    /\ ~LastResolved'.created
    /\ LastResolved'.device.name = ClientName
    /\ \E i \in NamedAsClient(devices) : devices[i] = LastResolved'.device
    /\ device_info' = <<LastResolved'.device>>

\* C17: when the call looks the list up (check_existing is None or
\* Some(true)), the list is fetched, and it holds a device of the client's
\* name, the call returns a listed device of that name and has the cloud
\* create none: the cloud's list is as it was.  The same holds for the call
\* run makes on a client that has no device record yet.
C17_ExistingDeviceIsReturned ==
    [][(GetDevices("some") /\ NamedAsClient(devices) # {}) =>
          ReturnsListedDevice]_vars

\* Two calls in a row returned the second device of a list whose first
\* device has another name, and the list still has its two devices.
C17_Witness ==
    /\ Len(resolved) = 2
    /\ Len(devices) = 2
    /\ devices[1].name # ClientName
    /\ devices[2].name = ClientName
    /\ resolved[1].device = devices[2]
    /\ resolved[2].device = devices[2]
    /\ ~resolved[1].created
    /\ ~resolved[2].created

\* No call was made since the last one that returned.
NoLaterCall == resolving = <<>> /\ run_pc # "panicked"

\* C18: of two successive calls that both look the list up, the second
\* returns the record the first returned and has the cloud create nothing;
\* and when the first had a device created, that device is the only one of
\* the client's name in the list after the second, as long as no later
\* call is made.
C18_ResolutionIsIdempotent ==
    \A i \in 1..(Len(resolved) - 1) :
        (resolved[i].looked_up /\ resolved[i + 1].looked_up) =>
            /\ resolved[i + 1].device = resolved[i].device
            /\ ~resolved[i + 1].created
            /\ (i + 1 = Len(resolved) /\ NoLaterCall /\ resolved[i].created) =>
                    Cardinality(NamedAsClient(devices)) = 1

\* The call under way was made by run.
RunResolves == resolving # <<>> /\ resolving[1].caller = "run"

\* C19: when the creation request fails, or its answer cannot be read, the
\* call returns CreationError to its caller: the task is not panicked, run
\* returns that error, and the client's device record stays unset.
C19_CreationFailureIsReturned ==
    [][(CreateDevice(FALSE) \/ CreateDeviceAnswer(FALSE)) =>
          /\ device_info' = device_info
          /\ IF RunResolves
             THEN run_pc' = "done" /\ run_ret' = "CreationError"
             ELSE run_pc' = "start"]_vars

\* C20: a provisioning or a connect failure during launch is reported, not
\* a panic of the task that runs launch, and the webhook server is
\* launched only after a run that reported no failure.
C20_StartupFailureAbortsLaunch ==
    [][/\ ((\E listing \in Listings : GetDevices(listing))
            \/ (\E posted \in BOOLEAN : CreateDevice(posted))
            \/ (\E decoded \in BOOLEAN : CreateDeviceAnswer(decoded))
            \/ (\E ok \in BOOLEAN : RunConnect(ok))) => run_pc' # "panicked"
       /\ ServerLaunch => run_ret = "Ok"]_vars

(***************************************************************************)
(* Properties of the connections.                                          *)
(***************************************************************************)
\* An authorization frame was written to connection c.
AuthorizationWritten(c) ==
    \E i \in 1..Len(wire) : wire[i].conn = c /\ wire[i].payload = "authorization"

\* The frames written to connection c, in order.
WrittenTo(c) == SelectSeq(wire, LAMBDA f : f.conn = c)

\* C25: on every connection the first frame the client writes is the
\* authorization frame and it writes no second one; and a client that
\* connect has returned Ok to has written it on the connection it holds.
C25_AuthorizationFrameIsFirst ==
    /\ \A c \in 1..Len(conns) :
          /\ WrittenTo(c) # <<>> => WrittenTo(c)[1].payload = "authorization"
          /\ \A i \in 2..Len(WrittenTo(c)) : WrittenTo(c)[i].payload # "authorization"
    /\ (ret = Returned("connect", "Ok") /\ websocket_stream # None) =>
          AuthorizationWritten(websocket_stream)

OpenConns == { c \in 1..Len(conns) : conns[c].open }

\* C27: at most one connection is open, and it is the one the client
\* holds; a connect on a client that holds a connection closes it.
C27_AtMostOneOpenConnection ==
    /\ Cardinality(OpenConns) <= 1
    /\ \A c \in OpenConns : c = websocket_stream

\* connect was called a second time on a client that held an open
\* connection: the first is closed and the second is open.
C27_Witness ==
    /\ Len(conns) = 2
    /\ ~conns[1].open
    /\ conns[2].open
    /\ websocket_stream = 2
    /\ ret = Returned("connect", "Ok")

\* The messages that can be routed to a command: singly spaced, with a
\* token after the mention.
CommandMessages ==
    { m \in Messages : SinglySpaced(m) /\ Len(Tokens(m)) >= 2 }

\* Registrations and parses of such messages.
CommandInit ==
    /\ ParserStart(CommandMessages)
    /\ ClientStart(FALSE, FALSE)
    /\ PeerStart
    /\ ForwardOff
    /\ RunOff

CommandSpec == CommandInit /\ [][ParserNext]_vars

(***************************************************************************)
(* More properties of the parser and of device resolution.                 *)
(***************************************************************************)
\* The descriptors a parse bound, in registration order.
BoundDescriptors(msg) ==
    IF Len(RegisteredArgs(msg)) >= Len(Tokens(msg)) - 2
    THEN Len(Tokens(msg)) - 2
    ELSE 0

\* C28: in a successful parse the descriptors bound are the first ones of
\* the registration, and the i-th is bound to the i-th token of the
\* message counted from its first token, the mention.
C28_BindsFromFirstToken ==
    [][(DoParse /\ Routed(plain_string_message) /\ parse_result'.kind = "Ok") =>
          \A i \in 1..Len(RegisteredArgs(plain_string_message)) :
              ValuesBoundTo(parse_result',
                            RegisteredArgs(plain_string_message)[i].name)
                  = IF i <= BoundDescriptors(plain_string_message)
                    THEN { Tokens(plain_string_message)[i] }
                    ELSE {}]_vars

\* "@b r r @b" was parsed with two descriptors registered for "r": the
\* first is bound to the mention and the second to the keyword.
C28_Witness ==
    /\ parse_result.kind = "Ok"
    /\ Tokens(plain_string_message) = << <<"@", "b">>, <<"r">>, <<"r">>, <<"@", "b">> >>
    /\ Bindings(parse_result) = { <<"topic", <<"@", "b">> >>, <<"duration", <<"r">> >> }

\* C29: when the call looks the list up and the lookup fails (the request
\* fails, or is answered with a status other than 200), it reports
\* CreationError to its caller: the task is not panicked, no creation
\* request is made and no device record is stored.
C29_LookupFailureIsReported ==
    [][\A listing \in {"panic", "none"} :
          GetDevices(listing) =>
              /\ resolving' = <<>>
              /\ UNCHANGED <<devices, device_info, resolved>>
              /\ IF RunResolves
                 THEN run_pc' = "done" /\ run_ret' = "CreationError"
                 ELSE run_pc' = "start"]_vars

\* The first position of a list that holds a device of the client's name.
FirstNamedAsClient(list) ==
    CHOOSE i \in NamedAsClient(list) : \A j \in NamedAsClient(list) : i <= j

\* C30: a call that looks up a fetched list holding devices of the
\* client's name returns the first of them in list order; and no call
\* returns a listed device of another name.
C30_FirstExactMatchWins ==
    [][/\ (GetDevices("some") /\ NamedAsClient(devices) # {}) =>
              /\ Len(resolved') = Len(resolved) + 1
              /\ LastResolved'.device = devices[FirstNamedAsClient(devices)]
       /\ (Len(resolved') = Len(resolved) + 1 /\ ~LastResolved'.created) =>
              LastResolved'.device.name = ClientName]_vars

\* The list holds two devices of the client's name with different URLs,
\* and the call returned the first.
C30_Witness ==
    /\ Len(resolved) >= 1
    /\ Len(devices) = 2
    /\ devices[1].name = ClientName
    /\ devices[2].name = ClientName
    /\ devices[1] # devices[2]
    /\ resolved[1].device = devices[1]
    /\ ~resolved[1].created

(***************************************************************************)
(* Properties of the dispatcher.                                           *)
(***************************************************************************)
\* The messages the claims below call malformed or unroutable: one with no
\* keyword, or with a keyword that is not registered, or with fewer tokens
\* after the keyword than the registration has descriptors.  This is the
\* class the claims speak of, not a condition parse tests: what parse does
\* with such a message is Parse's to say (it panics on the first two, and
\* returns a command without bindings on the third).
Malformed(msg) ==
    /\ SinglySpaced(msg)
    /\ \/ ~Routed(msg)
       \/ Len(Tokens(msg)) - 2 < Len(RegisteredArgs(msg))

\* C21: when the text of an event is one the parser is to refuse, the
\* handler invokes no callback and returns: the event is dropped, and the
\* parser is free for the next.
C21_ParseFailureDropsEvent ==
    [][\A t \in Handlers :
          (WebhookParse(t) /\ Malformed(handlers[t].text[1])) =>
              /\ handlers'[t].pc = "done"
              /\ parser_lock' = NoTask]_vars

\* C22: an event that waits to be parsed is parsed in the end, whether or
\* not the callbacks of other events ever complete.
C22_CallbacksDoNotBlockDispatch ==
    \A t \in Handlers : (handlers[t].pc = "lock") ~> (handlers[t].pc # "lock")

\* C23: the handling of a malformed message does not panic its task, and
\* leaves the other handlers, the command table and the lock as they were.
C23_MalformedCommandIsContained ==
    [][\A t \in Handlers :
          (WebhookParse(t) /\ Malformed(handlers[t].text[1])) =>
              /\ handlers'[t].pc # "panicked"
              /\ \A u \in Handlers \ {t} : handlers'[u] = handlers[u]
              /\ UNCHANGED <<commands, registrars>>]_vars

\* An entry of the command table is what one registration gave.
EntryOf(registration) ==
    [callback |-> registration.callback, args |-> registration.args]

\* C24: the command table changes, and a message is parsed, only in a step
\* taken while no task holds the parser's lock; every entry of the table
\* is the callback and the descriptors of one registration; and the
\* command a handler holds while its callback runs is an entry the table
\* still has.
C24_RegistrationIsAtomic ==
    [][/\ (commands' # commands) => parser_lock = NoTask
       /\ \A t \in Handlers :
             (handlers'[t].parsed # handlers[t].parsed) => parser_lock = NoTask
       /\ \A k \in DOMAIN commands' :
             \E registration \in Registrations :
                 registration.command = k /\ commands'[k] = EntryOf(registration)
       /\ \A t \in Handlers :
             handlers'[t].pc = "callback" =>
                 /\ parser_lock' = t
                 /\ handlers'[t].parsed.command \in DOMAIN commands'
                 /\ handlers'[t].parsed.callback
                        = commands'[handlers'[t].parsed.command].callback]_vars

\* A handler holds the command it parsed under the first registration and
\* its callback runs, while a second registration of the keyword and
\* another event wait for the lock.
C24_Witness ==
    /\ handlers[1].pc = "callback"
    /\ handlers[1].parsed.callback = "cb1"
    /\ handlers[2].pc = "lock"
    /\ \E r \in Registrars : registrars[r] = "waiting"
    /\ \E r \in Registrars : registrars[r] = "done"
    /\ parser_lock = 1

(***************************************************************************)
(* Properties of run's receive loop and of launch.                         *)
(***************************************************************************)
\* run's receive loop was left on a stream error: Err is the one item the
\* loop consumes and leaves on, so it is the last item consumed.
RunLoopEndedOnError ==
    /\ run_pc \in {"closing", "done", "serving"}
    /\ seen # <<>>
    /\ seen[Len(seen)].kind = "Err"

\* C31: a stream-read error in run's receive loop ends the loop and is
\* surfaced to run's caller as the error PeerAway; run opens no second
\* connection by itself.
C31_StreamErrorIsSurfaced ==
    /\ (RunLoopEndedOnError /\ run_pc \in {"done", "serving"}) => run_ret = "PeerAway"
    /\ (run_pc # "off") => Len(conns) <= 1

(***************************************************************************)
(* Properties of the command table's lock.                                 *)
(***************************************************************************)
\* Handler t has fetched its event's text and waits in parser.lock().
AwaitsLock(t) == handlers[t].pc = "lock"

\* C32: a parse is not excluded by the parse of another event (a handler
\* that waits for the table while only handlers hold it can go on), while
\* a registration is excluded for as long as any task holds the table.
C32_ParsesShareTheTable ==
    /\ \A t \in Handlers :
          (AwaitsLock(t) /\ parser_lock \in Handlers) => ENABLED WebhookParse(t)
    /\ \A r \in Registrars :
          (registrars[r] = "waiting" /\ parser_lock # NoTask) =>
              ~ENABLED (\E registration \in Registrations :
                            ServerAddCommand(r, registration))

(***************************************************************************)
(* Parses of one message after another, by a table that registrations      *)
(* change in between.                                                      *)
(***************************************************************************)
\* The caller of parse has another message to hand to it.
Receive(msg) ==
    /\ plain_string_message # msg
    /\ plain_string_message' = msg
    /\ UNCHANGED <<commands, parse_result, dispatchVars>>
    /\ UNCHANGED <<clientVars, peerVars, runVars, constructVars, forwardVars>>

ReparseInit ==
    /\ ParserStart(WebhookMessages)
    /\ ClientStart(FALSE, FALSE)
    /\ PeerStart
    /\ ForwardOff
    /\ RunOff

ReparseNext ==
    \/ \E k \in Keywords, a \in ArgLists, cb \in Callbacks : AddCommand(k, a, cb)
    \/ DoParse
    \/ \E msg \in WebhookMessages : Receive(msg)

ReparseSpec == ReparseInit /\ [][ReparseNext]_vars

\* C33: parse has no side effect.  Whatever the message and whether the
\* parse succeeds or fails, the command table is after it what it was
\* before, and the result is the one the table and the message determine,
\* whatever was parsed earlier.
C33_ParseLeavesTableAlone ==
    [][DoParse => /\ UNCHANGED commands
                  /\ parse_result' = Parse(commands', plain_string_message')]_vars

\* A message was parsed successfully by a table that holds both keywords,
\* and the table still holds the entry the parse routed to.
C33_Witness ==
    /\ parse_result.kind = "Ok"
    /\ parse_result = Parse(commands, plain_string_message)
    /\ DOMAIN commands = Keywords
    /\ commands[parse_result.command].callback = parse_result.callback

\* C34: the table holds one entry per keyword.  A registration leaves the
\* keyword with the descriptors and the callback it was made with, whether
\* or not the keyword was present, and leaves the other keywords as they
\* were; a successful parse returns the callback the table holds for the
\* keyword, which is that of the most recent registration.
C34_RegistrationReplaces ==
    [][/\ \A r \in Registrars, registration \in Registrations :
             ServerAddCommand(r, registration) =>
                 /\ DOMAIN commands' = (DOMAIN commands) \cup {registration.command}
                 /\ commands'[registration.command] = EntryOf(registration)
                 /\ \A j \in (DOMAIN commands) \ {registration.command} :
                        commands'[j] = commands[j]
       /\ \A t \in Handlers :
             (WebhookParse(t) /\ handlers'[t].parsed.kind = "Ok") =>
                 /\ handlers'[t].parsed.command \in DOMAIN commands
                 /\ handlers'[t].parsed.callback
                        = commands[handlers'[t].parsed.command].callback]_vars

\* An event was handled with the first callback; the keyword was then
\* registered again, and the next event for it is handled with the second
\* callback, the table holding the keyword once.
C34_Witness ==
    /\ handlers[1].pc = "done"
    /\ handlers[1].parsed.kind = "Ok"
    /\ handlers[1].parsed.callback = "cb1"
    /\ handlers[2].pc = "callback"
    /\ handlers[2].parsed.callback = "cb2"
    /\ handlers[2].parsed.command = handlers[1].parsed.command
    /\ DOMAIN commands = { <<"r">> }
    /\ commands[<<"r">>].callback = "cb2"

(***************************************************************************)
(* The constructors of websocket.rs, called concurrently.  Each tests      *)
(* APP_STATE.get().is_none() and then sets the cell: two steps.            *)
(* TransportWebSocketClient::new does so itself and then calls             *)
(* WebSocketClient::new for its _websocket_impl, which does so again.      *)
(***************************************************************************)
ConstructorKinds == { "WebSocketClient::new", "TransportWebSocketClient::new" }

\* Where call c stands once the test-and-set block of the constructor it
\* is in is behind it.
PastAppState(c) ==
    IF c.stage = "TransportWebSocketClient::new"
    THEN [c EXCEPT !.pc = "check", !.stage = "WebSocketClient::new"]
    ELSE [c EXCEPT !.pc = "done"]

\* A thread calls a constructor.
NewCall(b, kind, secure) ==
    /\ constructions[b].pc = "idle"
    /\ constructions' = [constructions EXCEPT ![b] =
                            [pc |-> "check", kind |-> kind, secure |-> secure,
                             stage |-> kind]]
    /\ UNCHANGED <<clientVars, peerVars, parserVars, runVars, forwardVars>>

\* `if APP_STATE.get().is_none() {`
NewCheck(b) ==
    /\ constructions[b].pc = "check"
    /\ constructions' = [constructions EXCEPT ![b] =
                            IF app_state = "unset"
                            THEN [@ EXCEPT !.pc = "set"]
                            ELSE PastAppState(@)]
    /\ UNCHANGED <<clientVars, peerVars, parserVars, runVars, forwardVars>>

\* `APP_STATE.set(Mutex::new(AppState { running: true })).unwrap();`
\* OnceCell::set gives Err when the cell is full, and unwrap panics on it.
NewSet(b) ==
    /\ constructions[b].pc = "set"
    /\ IF app_state = "unset"
       THEN /\ app_state' = "running"
            /\ constructions' = [constructions EXCEPT ![b] = PastAppState(@)]
       ELSE /\ constructions' = [constructions EXCEPT ![b].pc = "panicked"]
            /\ UNCHANGED app_state
    /\ UNCHANGED <<is_secure, is_established, websocket_stream, verified_ws,
                   callback, pc, ret, conns, wire, seen, on_text>>
    /\ UNCHANGED <<peerVars, parserVars, runVars, forwardVars>>

\* No client exists and APP_STATE is empty.
ConstructInit ==
    /\ ClientAbsent
    /\ PeerStart
    /\ ForwardOff
    /\ ParserStart({<<>>})
    /\ RunOff

ConstructNext ==
    \/ \E b \in Builders, kind \in ConstructorKinds, secure \in BOOLEAN :
            NewCall(b, kind, secure)
    \/ \E b \in Builders : NewCheck(b)
    \/ \E b \in Builders : NewSet(b)

ConstructSpec == ConstructInit /\ [][ConstructNext]_vars

\* C35: constructors called concurrently all complete: none panics,
\* however the tests of the shutdown state and its initialisations
\* interleave, and the state is initialised by one of them.
C35_ConcurrentConstructionCompletes ==
    /\ \A b \in Builders : constructions[b].pc # "panicked"
    /\ (\E b \in Builders : constructions[b].pc = "done") => app_state = "running"

(***************************************************************************)
(* Properties of the transport's hold on its stream.                       *)
(***************************************************************************)
\* A step of send, of listen_for_messages (its entry) or of close (its
\* entry), whatever the arguments.
SendCalled == \E t \in Texts, w \in BOOLEAN : Send(t, w)

ListenCalled == \E cb \in BOOLEAN : ListenForMessages(cb)

\* C36: on a transport that holds the stream a connect gave it, send,
\* listen_for_messages and close each leave the transport without a
\* stream, so that whichever of them follows is refused.
C36_OperationsTakeTheStream ==
    [][(Connected /\ (SendCalled \/ ListenCalled \/ Close)) =>
          websocket_stream' = None]_vars

(***************************************************************************)
(* Properties of the receive loops at the end of the stream.               *)
(***************************************************************************)
\* The read finds the stream exhausted: next() yields None.
StreamExhausted == StreamReady /\ StreamNext = EndOfStream

\* C37: end-of-stream does not end listen_for_messages: called on a
\* connected client whose stream is exhausted, it is in its loop and has
\* returned nothing.
C37_EndOfStreamKeepsListening ==
    [][(ListenCalled /\ Connected /\ StreamExhausted) =>
          (InListenLoop' /\ ret' = ret)]_vars

(***************************************************************************)
(* launch as a whole: the realtime client's run, then the webhook server   *)
(* and the events it dispatches.  Rocket calls webhook_listener only once  *)
(* the server is launched.                                                 *)
(***************************************************************************)
\* `self._server.launch().await` is under way.
Serving == run_pc = "serving"

ServedFetch(t, fetched, text) == Serving /\ WebhookFetch(t, fetched, text)

ServedParse(t) == Serving /\ WebhookParse(t)

ServedCallbackReturns(t) == Serving /\ CallbackReturns(t)

\* What the cloud lists when launch is called: nothing, or a device of the
\* client's name.
LaunchListings == { <<>>, << Device(ClientName, "wss://h") >> }

\* What the peer sends to run in these behaviours: a text, or an error.
LaunchItems == { Frame("Text", "x"), Frame("Err", "") }

\* The texts of the events the server gets: none, or "@b r r".
LaunchTexts == { <<>>, << Join(<< <<"@", "b">>, <<"r">>, <<"r">> >>) >> }

\* The application has made its add_command calls and calls launch.
LaunchInit ==
    /\ \E regs \in UNION { [1..k -> Registrations] : k \in 0..MaxRegistrars } :
          /\ commands = InsertAll(regs)
          /\ registrars = [r \in Registrars |->
                              IF r - MaxHandlers <= Len(regs) THEN "done" ELSE "idle"]
    /\ plain_string_message = <<>>
    /\ parse_result = NotParsed
    /\ parser_lock = NoTask
    /\ handlers = [t \in Handlers |-> HandlerAt("idle", <<>>, NotParsed)]
    /\ \E listed \in LaunchListings : RunStart(listed)
    /\ ClientStart(FALSE, FALSE)
    /\ PeerStart
    /\ ForwardOff

LaunchNext ==
    \/ RunProvision
    \/ \E listing \in Listings : GetDevices(listing)
    \/ \E posted \in BOOLEAN : CreateDevice(posted)
    \/ \E decoded \in BOOLEAN : CreateDeviceAnswer(decoded)
    \/ \E ok \in BOOLEAN : RunConnect(ok)
    \/ \E w \in BOOLEAN : RunAuth(w)
    \/ RunRead
    \/ RunClose
    \/ ServerLaunch
    \/ \E item \in LaunchItems : PeerDeliver(item)
    \/ PeerEnd
    \/ \E t \in Handlers, fetched \in BOOLEAN, text \in LaunchTexts :
            ServedFetch(t, fetched, text)
    \/ \E t \in Handlers : ServedParse(t)
    \/ \E t \in Handlers : ServedCallbackReturns(t)

LaunchSpec == LaunchInit /\ [][LaunchNext]_vars

\* run has been entered and has not returned: it is suspended in its call
\* of get_device_info_or_create, or is past it.
RunUnderWay == RunResolves \/ run_pc \in {"connect", "auth", "loop", "closing"}

\* C38: launch is sequential.  The webhook server is launched by a step
\* taken after run returned; while it serves, run's stream is gone and its
\* connection closed; and a webhook event is handled only while the server
\* serves, never while run is under way.
C38_ServerStartsAfterRun ==
    [][/\ (~Serving /\ Serving') =>
              /\ run_pc = "done"
              /\ run_ret = "Ok"
       /\ Serving' =>
              /\ ws_stream' = None
              /\ \A c \in 1..Len(conns') : ~conns'[c].open
       /\ (handlers' # handlers) => (Serving /\ ~RunUnderWay)
       /\ RunUnderWay' =>
              \A t \in Handlers : handlers'[t].pc = "idle"]_vars

\* run went through its receive loop and its close sequence and returned;
\* the server was launched; one event's callback runs and another event
\* waits.
C38_Witness ==
    /\ Serving
    /\ run_ret = "Ok"
    /\ seen # <<>>
    /\ Len(conns) = 1
    /\ ~conns[1].open
    /\ handlers[1].pc = "callback"
    /\ handlers[2].pc = "lock"

====
